---- MODULE Spec2Model ----
(***************************************************************************)
(* Model of spotalerter.py: the startup sequence (argument parsing, the    *)
(* clamp of the loop delay, the loading of the Twilio credentials) and the *)
(* poll loop (check_price, the threshold branches, the SMS send, the       *)
(* single-shot break, the sleep, the KeyboardInterrupt handler).           *)
(*                                                                         *)
(* Prices and the threshold are floats in the script.  They are modelled   *)
(* in fixed point: a value v stands for v / Scale dollars.  Price strings  *)
(* are sequences of one-character strings over Alphabet; on that alphabet  *)
(* float_ accepts exactly the strings Python's float() accepts.            *)
(***************************************************************************)
EXTENDS Integers, Sequences, FiniteSets, TLC

\* ---------------------------------------------------------------- bounds
\* Longest upstream price string that is enumerated.
MaxLen == 3
\* Number of check_price calls after which the model stops polling.
MaxFetches == 3

\* ------------------------------------------------------ program constants
\* max(60.0, args.delay)
MinDelay == 60
\* default of --delay
DefaultDelay == 300

\* --------------------------------------------------------------- inputs
Digits == {"2", "3"}
Alphabet == Digits \cup {"-", ".", "x"}

RECURSIVE Pow10(_)
Pow10(n) == IF n = 0 THEN 1 ELSE 10 * Pow10(n - 1)

\* Fixed-point scale: a string of MaxLen characters has at most MaxLen - 1
\* fractional digits.
Scale == Pow10(MaxLen - 1)

\* The sentinel the script uses for a missing SpotPrice field.
NoneStr == <<"N", "o", "n", "e">>

PriceStrings == UNION {[1..k -> Alphabet] : k \in 0..MaxLen} \cup {NoneStr}

\* One entry of SpotPriceHistory: the SpotPrice key may be absent (has =
\* FALSE, the SpotPrice field of the record is then a placeholder).
Entries ==
    {[has |-> FALSE, SpotPrice |-> <<>>]} \cup [has : {TRUE}, SpotPrice : PriceStrings]

\* Responses of describe_spot_price_history (MaxResults=1): the
\* SpotPriceHistory key may be absent (hasHistory = FALSE, the field of the
\* record is then a placeholder), the list may be empty.
Responses ==
    {[hasHistory |-> FALSE, SpotPriceHistory |-> <<>>]} \cup
    [hasHistory : {TRUE}, SpotPriceHistory : {<<>>} \cup {<<e>> : e \in Entries}]

\* --threshold and --delay values that are enumerated (threshold 2.3 and 3.0).
Thresholds == {(23 * Scale) \div 10, 3 * Scale}
Delays == {MinDelay - 1, MinDelay, MinDelay + 1, DefaultDelay}

CredKeys == {"TwilioAccount", "TwilioAuthToken", "FromNumber", "ToNumber"}
\* The yaml file may not exist; each key may be absent, empty or set.
CredFiles == [exists : BOOLEAN, creds : [CredKeys -> {"absent", "", "v"}]]

\* Value of twilio_config before (or without) load_twilio_credentials.
NotRead == [read |-> FALSE, exists |-> FALSE, creds |-> [k \in CredKeys |-> "absent"]]
AsRead(f) == [read |-> TRUE, exists |-> f.exists, creds |-> f.creds]

\* ---------------------------------------------------------------- state
VARIABLES
    sms, threshold, loop, delay,   \* args
    loop_delay,                    \* effective delay, 0 before it is computed
    tw_client,                     \* "unset" or "client"
    pc,                            \* position of the script
    exitCode,                      \* -1 while running
    cancelled,                     \* a KeyboardInterrupt was delivered
    price_tup,                     \* result of the last check_price
    fetches,                       \* number of check_price calls
    lastOutcome, prevOutcome,      \* "none", "Observed", "Unavailable", "Raised"
    decision, prevDecision,        \* branch taken this cycle / previous cycle
    cycleEvals,                    \* threshold comparisons made this cycle
    cycleSends,                    \* messages.create calls made this cycle
    cycleSent,                     \* messages.create calls that returned
    sinkFailed,                    \* messages.create raised
    out,                           \* lines printed this cycle
    sleptSinceFetch,               \* a sleep completed since the last fetch
    unsleptRefetch,                \* some fetch after the first had no sleep before it
    sleeps,                        \* the arguments of the time.sleep calls, in order
    cancelledAt,                   \* pc at which the KeyboardInterrupt arrived
    twilio_config,                 \* the credentials file as read at startup
    respKind,                      \* shape of the last upstream response
    sendsTotal,                    \* messages.create calls of the whole run
    sleptSinceSend,                \* a sleep completed since the last send
    unsleptResend                  \* some send after the first had no sleep before it

vars == <<sms, threshold, loop, delay, loop_delay, tw_client, pc, exitCode,
          cancelled, price_tup, fetches, lastOutcome, prevOutcome, decision,
          prevDecision, cycleEvals, cycleSends, cycleSent, sinkFailed, out,
          sleptSinceFetch, unsleptRefetch, sleeps, cancelledAt, twilio_config,
          respKind, sendsTotal, sleptSinceSend, unsleptResend>>

args == <<sms, threshold, loop, delay>>
cycleVars == <<price_tup, fetches, lastOutcome, prevOutcome, decision,
               prevDecision, cycleEvals, cycleSends, cycleSent, out,
               sleptSinceFetch, unsleptRefetch, respKind>>
sendVars == <<sendsTotal, sleptSinceSend, unsleptResend>>

LoopPcs == {"Polling", "Evaluating", "Notifying", "LoopCheck", "Sleeping"}
EndPcs == {"Stopped", "Aborted", "Crashed"}

\* ------------------------------------------------------- pure functions
\* Python's max(a, b): the first argument unless the second is greater.
Max(a, b) == IF b > a THEN b ELSE a

LoopDelayNoClamp(d) == d
\* loop_delay = max(60.0, args.delay)
LoopDelay(d) == Max(MinDelay, d)

DigitVal(c) == IF c = "2" THEN 2 ELSE 3

RECURSIVE IntVal(_)
\* Value of a string of digits; the empty string is 0.
IntVal(s) ==
    IF Len(s) = 0 THEN 0
    ELSE 10 * IntVal(SubSeq(s, 1, Len(s) - 1)) + DigitVal(s[Len(s)])

\* Position of the decimal point, 0 when there is none.
DotPos(s) ==
    IF \E i \in 1..Len(s) : s[i] = "."
    THEN CHOOSE i \in 1..Len(s) : s[i] = "." /\ \A j \in 1..(i - 1) : s[j] # "."
    ELSE 0

\* float(s) for s over Alphabet: an optional sign, then digits with at most
\* one decimal point and at least one digit.  ok = FALSE is ValueError.
float_(s) ==
    LET neg == Len(s) > 0 /\ s[1] = "-"
        b == IF neg THEN Tail(s) ELSE s
        dots == {i \in 1..Len(b) : b[i] = "."}
        digs == {i \in 1..Len(b) : b[i] \in Digits}
        valid == /\ \A i \in 1..Len(b) : b[i] \in Digits \cup {"."}
                 /\ Cardinality(dots) <= 1
                 /\ digs # {}
        d == DotPos(b)
        ip == IF d = 0 THEN b ELSE SubSeq(b, 1, d - 1)
        fp == IF d = 0 THEN <<>> ELSE SubSeq(b, d + 1, Len(b))
        mag == IntVal(ip) * Scale + IntVal(fp) * Pow10(MaxLen - 1 - Len(fp))
    IN IF valid THEN [ok |-> TRUE, val |-> IF neg THEN 0 - mag ELSE mag]
       ELSE [ok |-> FALSE, val |-> 0]

check_priceZeroOnError(resp) ==
    LET sph == IF resp.hasHistory THEN resp.SpotPriceHistory ELSE <<>>
    IN IF Len(sph) = 0 THEN <<>>
       ELSE LET price_str == IF sph[1].has THEN sph[1].SpotPrice ELSE NoneStr
            IN IF price_str = NoneStr THEN <<>>
               ELSE <<float_(price_str).val>>

check_priceRejectNegative(resp) ==
    LET sph == IF resp.hasHistory THEN resp.SpotPriceHistory ELSE <<>>
    IN IF Len(sph) = 0 THEN <<>>
       ELSE LET price_str == IF sph[1].has THEN sph[1].SpotPrice ELSE NoneStr
            IN IF price_str = NoneStr THEN <<>>
               ELSE IF float_(price_str).ok /\ float_(price_str).val >= 0
                    THEN <<float_(price_str).val>>
               ELSE <<>>

\* The part of check_price after the remote call: () or (price,).
check_price(resp) ==
    LET sph == IF resp.hasHistory THEN resp.SpotPriceHistory ELSE <<>>
    IN IF Len(sph) = 0 THEN <<>>
       ELSE LET price_str == IF sph[1].has THEN sph[1].SpotPrice ELSE NoneStr
            IN IF price_str = NoneStr THEN <<>>
               ELSE IF float_(price_str).ok THEN <<float_(price_str).val>>
               ELSE <<>>

\* What check_price can return over all the enumerated responses.
PriceTuples == {check_price(resp) : resp \in Responses}

\* Shape of an upstream response: no SpotPriceHistory key, an empty list, an
\* entry without SpotPrice, the literal string "None", a string float()
\* rejects, a string float() accepts (with or without a leading minus sign).
RespKind(resp) ==
    IF ~resp.hasHistory THEN "nokey"
    ELSE IF resp.SpotPriceHistory = <<>> THEN "empty"
    ELSE LET e == resp.SpotPriceHistory[1]
         IN IF ~e.has THEN "nofield"
            ELSE IF e.SpotPrice = NoneStr THEN "nonestr"
            ELSE IF ~float_(e.SpotPrice).ok THEN "unparsable"
            ELSE IF e.SpotPrice[1] = "-" THEN "negative"
            ELSE "number"

\* The responses as check_price sees them: shape and returned tuple.
PollResults == {<<RespKind(resp), check_price(resp)>> : resp \in Responses}

\* creds.get(key, "")
CredGet(creds, key) == IF creds[key] = "absent" THEN "" ELSE creds[key]

load_twilio_credentialsNoToNumber(f) ==
    IF ~f.exists THEN "raise"
    ELSE IF \E k \in CredKeys \ {"ToNumber"} : CredGet(f.creds, k) = "" THEN "quit"
    ELSE "ok"

\* load_twilio_credentials: "raise" (the file cannot be opened), "quit"
\* (quit(code=1)) or "ok".
load_twilio_credentials(f) ==
    IF ~f.exists THEN "raise"
    ELSE IF \E k \in CredKeys : CredGet(f.creds, k) = "" THEN "quit"
    ELSE "ok"

BranchGE(s, p, t) ==
    IF s /\ p >= t THEN "sms" ELSE IF p >= t THEN "alert" ELSE "normal"
BranchNoSmsGuard(s, p, t) ==
    IF p > t THEN "sms" ELSE "normal"
\* The if / elif / else of the loop body.
Branch(s, p, t) ==
    IF s /\ p > t THEN "sms" ELSE IF p > t THEN "alert" ELSE "normal"

\* --------------------------------------------------------------- Init
Init ==
    /\ sms \in BOOLEAN
    /\ threshold \in Thresholds
    /\ loop \in BOOLEAN
    /\ delay \in Delays
    /\ loop_delay = 0
    /\ tw_client = "unset"
    /\ pc = "start"
    /\ exitCode = -1
    /\ cancelled = FALSE
    /\ price_tup = <<>>
    /\ fetches = 0
    /\ lastOutcome = "none"
    /\ prevOutcome = "none"
    /\ decision = "none"
    /\ prevDecision = "none"
    /\ cycleEvals = 0
    /\ cycleSends = 0
    /\ cycleSent = 0
    /\ sinkFailed = FALSE
    /\ out = <<>>
    /\ sleptSinceFetch = FALSE
    /\ unsleptRefetch = FALSE
    /\ sleeps = <<>>
    /\ cancelledAt = "none"
    /\ twilio_config = NotRead
    /\ respKind = "none"
    /\ sendsTotal = 0
    /\ sleptSinceSend = FALSE
    /\ unsleptResend = FALSE

\* ------------------------------------------------------------- actions
\* Lines 123-137: clamp the delay, load the credentials when --sms is given.
Startup ==
    /\ pc = "start"
    /\ loop_delay' = LoopDelay(delay)
    /\ IF sms
       THEN \E f \in CredFiles :
              LET r == load_twilio_credentials(f)
              IN /\ tw_client' = IF r = "ok" THEN "client" ELSE "unset"
                 /\ pc' = IF r = "ok" THEN "Polling"
                          ELSE IF r = "quit" THEN "Aborted" ELSE "Crashed"
                 /\ exitCode' = IF r = "ok" THEN -1 ELSE 1
                 /\ twilio_config' = AsRead(f)
       ELSE /\ pc' = "Polling"
            /\ UNCHANGED <<tw_client, exitCode, twilio_config>>
    /\ UNCHANGED <<args, cancelled, cycleVars, sinkFailed, sleeps, cancelledAt,
                   sendVars>>

\* The bookkeeping of a check_price call: a new cycle begins.
NewCycle(outcome) ==
    /\ fetches' = fetches + 1
    /\ prevOutcome' = lastOutcome
    /\ lastOutcome' = outcome
    /\ prevDecision' = decision
    /\ decision' = "none"
    /\ cycleEvals' = 0
    /\ cycleSends' = 0
    /\ cycleSent' = 0
    /\ sleptSinceFetch' = FALSE
    /\ unsleptRefetch' = (unsleptRefetch \/ (fetches > 0 /\ ~sleptSinceFetch))

PollBreakOnUnavailable ==
    /\ pc = "Polling"
    /\ fetches < MaxFetches
    /\ \/ /\ NewCycle("Raised")
          /\ pc' = "Crashed"
          /\ exitCode' = 1
          /\ out' = <<>>
          /\ respKind' = "raised"
          /\ UNCHANGED price_tup
       \/ \E r \in PollResults :
            LET t == r[2]
            IN /\ price_tup' = t
               /\ respKind' = r[1]
               /\ NewCycle(IF Len(t) = 0 THEN "Unavailable" ELSE "Observed")
               /\ IF Len(t) = 0
                  THEN /\ out' = <<"unavailable">>
                       /\ pc' = "Stopped"
                       /\ exitCode' = 0
                  ELSE /\ out' = <<>>
                       /\ pc' = "Evaluating"
                       /\ UNCHANGED exitCode
    /\ UNCHANGED <<args, loop_delay, tw_client, cancelled, sinkFailed, sleeps,
                   cancelledAt, twilio_config, sendVars>>

\* Lines 141-149: call check_price; the remote call may raise, which nothing
\* catches; an empty tuple prints "Price not available" and continues.
Poll ==
    /\ pc = "Polling"
    /\ fetches < MaxFetches
    /\ \/ /\ NewCycle("Raised")
          /\ pc' = "Crashed"
          /\ exitCode' = 1
          /\ out' = <<>>
          /\ respKind' = "raised"
          /\ UNCHANGED price_tup
       \/ \E r \in PollResults :
            LET t == r[2]
            IN /\ price_tup' = t
               /\ respKind' = r[1]
               /\ NewCycle(IF Len(t) = 0 THEN "Unavailable" ELSE "Observed")
               /\ IF Len(t) = 0
                  THEN /\ out' = <<"unavailable">>
                       /\ pc' = "Polling"
                  ELSE /\ out' = <<>>
                       /\ pc' = "Evaluating"
               /\ UNCHANGED exitCode
    /\ UNCHANGED <<args, loop_delay, tw_client, cancelled, sinkFailed, sleeps,
                   cancelledAt, twilio_config, sendVars>>

EvaluateDebounced ==
    /\ pc = "Evaluating"
    /\ LET b == Branch(sms, price_tup[1], threshold)
           d == IF b = "sms" /\ prevDecision = "sms" THEN "alert" ELSE b
       IN /\ decision' = d
          /\ cycleEvals' = cycleEvals + 1
          /\ out' = Append(out, IF d = "sms" THEN "sending" ELSE d)
          /\ pc' = IF d = "sms" THEN "Notifying" ELSE "LoopCheck"
    /\ UNCHANGED <<args, loop_delay, tw_client, exitCode, cancelled, price_tup,
                   fetches, lastOutcome, prevOutcome, prevDecision, cycleSends,
                   cycleSent, sinkFailed, sleptSinceFetch, unsleptRefetch,
                   sleeps, cancelledAt, twilio_config, respKind, sendVars>>

EvaluateNoSmsLine ==
    /\ pc = "Evaluating"
    /\ LET d == Branch(sms, price_tup[1], threshold)
       IN /\ decision' = d
          /\ cycleEvals' = cycleEvals + 1
          /\ out' = IF d = "sms" THEN out ELSE Append(out, d)
          /\ pc' = IF d = "sms" THEN "Notifying" ELSE "LoopCheck"
    /\ UNCHANGED <<args, loop_delay, tw_client, exitCode, cancelled, price_tup,
                   fetches, lastOutcome, prevOutcome, prevDecision, cycleSends,
                   cycleSent, sinkFailed, sleptSinceFetch, unsleptRefetch,
                   sleeps, cancelledAt, twilio_config, respKind, sendVars>>

\* Lines 149-160: take the branch and print its line; the SMS branch goes on
\* to messages.create.
Evaluate ==
    /\ pc = "Evaluating"
    /\ LET d == Branch(sms, price_tup[1], threshold)
       IN /\ decision' = d
          /\ cycleEvals' = cycleEvals + 1
          /\ out' = Append(out, IF d = "sms" THEN "sending" ELSE d)
          /\ pc' = IF d = "sms" THEN "Notifying" ELSE "LoopCheck"
    /\ UNCHANGED <<args, loop_delay, tw_client, exitCode, cancelled, price_tup,
                   fetches, lastOutcome, prevOutcome, prevDecision, cycleSends,
                   cycleSent, sinkFailed, sleptSinceFetch, unsleptRefetch,
                   sleeps, cancelledAt, twilio_config, respKind, sendVars>>

\* Line 156: tw_client.messages.create returns or raises; nothing catches
\* what it raises.
Notify ==
    /\ pc = "Notifying"
    /\ cycleSends' = cycleSends + 1
    /\ sendsTotal' = sendsTotal + 1
    /\ unsleptResend' = (unsleptResend \/ (sendsTotal > 0 /\ ~sleptSinceSend))
    /\ sleptSinceSend' = FALSE
    /\ \E delivered \in BOOLEAN :
         IF delivered
         THEN /\ cycleSent' = cycleSent + 1
              /\ pc' = "LoopCheck"
              /\ UNCHANGED <<sinkFailed, exitCode>>
         ELSE /\ sinkFailed' = TRUE
              /\ pc' = "Crashed"
              /\ exitCode' = 1
              /\ UNCHANGED cycleSent
    /\ UNCHANGED <<args, loop_delay, tw_client, cancelled, price_tup, fetches,
                   lastOutcome, prevOutcome, decision, prevDecision, cycleEvals,
                   out, sleptSinceFetch, unsleptRefetch, sleeps, cancelledAt,
                   twilio_config, respKind>>

LoopCheckNoSleepAfterAlert ==
    /\ pc = "LoopCheck"
    /\ IF ~loop
       THEN /\ pc' = "Stopped"
            /\ exitCode' = 0
            /\ UNCHANGED sleeps
       ELSE IF decision = "sms"
       THEN /\ pc' = "Polling"
            /\ UNCHANGED <<sleeps, exitCode>>
       ELSE /\ pc' = "Sleeping"
            /\ sleeps' = Append(sleeps, loop_delay)
            /\ UNCHANGED exitCode
    /\ UNCHANGED <<args, loop_delay, tw_client, cancelled, cycleVars, sinkFailed,
                   cancelledAt, twilio_config, sendVars>>

\* Lines 161-163: break in single-shot mode, otherwise call time.sleep.
LoopCheck ==
    /\ pc = "LoopCheck"
    /\ IF ~loop
       THEN /\ pc' = "Stopped"
            /\ exitCode' = 0
            /\ UNCHANGED sleeps
       ELSE /\ pc' = "Sleeping"
            /\ sleeps' = Append(sleeps, loop_delay)
            /\ UNCHANGED exitCode
    /\ UNCHANGED <<args, loop_delay, tw_client, cancelled, cycleVars, sinkFailed,
                   cancelledAt, twilio_config, sendVars>>

\* time.sleep returns: back to the top of the while loop.
Wake ==
    /\ pc = "Sleeping"
    /\ pc' = "Polling"
    /\ sleptSinceFetch' = TRUE
    /\ sleptSinceSend' = TRUE
    /\ UNCHANGED <<args, loop_delay, tw_client, exitCode, cancelled, price_tup,
                   fetches, lastOutcome, prevOutcome, decision, prevDecision,
                   cycleEvals, cycleSends, cycleSent, sinkFailed, out,
                   unsleptRefetch, sleeps, cancelledAt, twilio_config, respKind,
                   sendsTotal, unsleptResend>>

InterruptIgnoredInSleep ==
    /\ pc \in LoopPcs
    /\ pc' = IF pc = "Sleeping" THEN "Polling" ELSE "Stopped"
    /\ exitCode' = IF pc = "Sleeping" THEN exitCode ELSE 0
    /\ cancelled' = TRUE
    /\ cancelledAt' = pc
    /\ UNCHANGED <<args, loop_delay, tw_client, cycleVars, sinkFailed, sleeps,
                   twilio_config, sendVars>>

InterruptAfterEvaluation ==
    /\ pc \in LoopPcs
    /\ pc' = "Stopped"
    /\ exitCode' = 0
    /\ cancelled' = TRUE
    /\ cancelledAt' = pc
    /\ IF pc = "Evaluating"
       THEN /\ decision' = Branch(sms, price_tup[1], threshold)
            /\ cycleEvals' = cycleEvals + 1
            /\ out' = Append(out, IF decision' = "sms" THEN "sending" ELSE decision')
       ELSE UNCHANGED <<decision, cycleEvals, out>>
    /\ UNCHANGED <<args, loop_delay, tw_client, price_tup, fetches, lastOutcome,
                   prevOutcome, prevDecision, cycleSends, cycleSent,
                   sleptSinceFetch, unsleptRefetch, respKind, sinkFailed, sleeps,
                   twilio_config, sendVars>>

InterruptUncaught ==
    /\ pc \in LoopPcs
    /\ pc' = "Crashed"
    /\ exitCode' = 1
    /\ cancelled' = TRUE
    /\ cancelledAt' = pc
    /\ UNCHANGED <<args, loop_delay, tw_client, cycleVars, sinkFailed, sleeps,
                   twilio_config, sendVars>>

\* Lines 164-165: a KeyboardInterrupt anywhere inside the try block is
\* swallowed and the script ends.
Interrupt ==
    /\ pc \in LoopPcs
    /\ pc' = "Stopped"
    /\ exitCode' = 0
    /\ cancelled' = TRUE
    /\ cancelledAt' = pc
    /\ UNCHANGED <<args, loop_delay, tw_client, cycleVars, sinkFailed, sleeps,
                   twilio_config, sendVars>>

Next ==
    \/ Startup
    \/ Poll
    \/ Evaluate
    \/ Notify
    \/ LoopCheck
    \/ Wake
    \/ Interrupt

Spec == Init /\ [][Next]_vars

\* ------------------------------------------------------------ typing
TypeOK ==
    /\ sms \in BOOLEAN /\ loop \in BOOLEAN
    /\ threshold \in Thresholds /\ delay \in Delays
    /\ pc \in {"start"} \cup LoopPcs \cup EndPcs
    /\ exitCode \in {-1, 0, 1}
    /\ fetches \in 0..MaxFetches
    /\ Len(price_tup) <= 1 /\ price_tup \in PriceTuples
    /\ cancelledAt \in {"none"} \cup LoopPcs
    /\ sendsTotal \in 0..MaxFetches

\* ------------------------------------------------------------ claims
\* Prices that check_price can return for the enumerated strings.
ParsedPrices == {float_(s).val : s \in {x \in PriceStrings : float_(x).ok}}

Observed == lastOutcome = "Observed" /\ Len(price_tup) = 1
Exceeds == Observed /\ price_tup[1] > threshold
\* The cycle ran to its end: the loop is at the break test, asleep, back at
\* the top after a sleep, or stopped by the single-shot break.
CycleDone ==
    \/ pc \in {"LoopCheck", "Sleeping"}
    \/ pc = "Polling" /\ sleptSinceFetch
    \/ pc = "Stopped" /\ ~cancelled

\* C1: in single-shot mode (loop = FALSE) check_price is called exactly once
\* in the whole run, whatever it returns: there is never a second fetch.
C1_SingleShotOneFetch == ~loop => fetches <= 1

\* C2: in single-shot mode, after a fetch that returned Unavailable the loop
\* is on its way out (at the break test or stopped with exit code 0) without
\* any cancellation; it is not back at the top of the loop.
C2_SingleShotUnavailableStops ==
    (~loop /\ lastOutcome = "Unavailable" /\ ~cancelled)
        => (pc \in {"LoopCheck", "Stopped"} /\ exitCode \in {-1, 0})

\* C3: in loop mode every fetch after the first is preceded by a completed
\* sleep since the previous fetch, whatever the previous fetch returned.
C3_SleepBeforeEveryRefetch == loop => ~unsleptRefetch

\* C4: when messages.create fails the loop is not terminated by the failure:
\* the script goes on to the break test / sleep and never ends with an error.
C4_SinkFailureNotFatal ==
    sinkFailed => (pc # "Crashed" /\ exitCode # 1)

\* C5: in loop mode, once the loop has been entered, it ends only through
\* external cancellation: no collaborator failure ends it.
C5_LoopEndsOnlyByCancel ==
    (loop /\ fetches > 0 /\ pc \in EndPcs) => cancelled

\* C6: messages.create is invoked in a cycle only if --sms is set and the
\* cycle's observed price is strictly greater than the threshold; with --sms
\* off, or price <= threshold, no send is issued or pending in that cycle.
C6_SendOnlyWhenEnabledAndExceeded ==
    (cycleSends > 0 \/ pc = "Notifying") => (sms /\ Exceeds)
C6_Witness == cycleSends = 1 /\ sms /\ Exceeds

\* C7: a cycle whose fetch returned Unavailable makes no threshold comparison
\* and no send, and in loop mode (absent cancellation) the loop is back at
\* the top, about to fetch again.
C7_UnavailableSkipsCycle ==
    lastOutcome = "Unavailable" =>
        /\ cycleEvals = 0 /\ cycleSends = 0 /\ decision = "none"
        /\ out = <<"unavailable">>
        /\ (loop /\ ~cancelled) => pc = "Polling"
C7_Witness ==
    loop /\ prevOutcome = "Unavailable" /\ lastOutcome = "Observed" /\ fetches >= 2

\* The branch taken is an alert branch iff p > t, over the enumerated inputs.
BranchIsStrict ==
    \A s \in BOOLEAN, p \in ParsedPrices, t \in Thresholds :
        /\ (Branch(s, p, t) \in {"sms", "alert"}) <=> (p > t)
        /\ (Branch(s, p, t) = "normal") <=> ~(p > t)

\* C8: the branch taken is an alert branch iff price > threshold, for every
\* enumerated price and threshold and for both values of --sms; a price equal
\* to the threshold takes the normal branch; the branch the loop took in the
\* current cycle agrees with this.
C8_ExceededIffGreater ==
    /\ BranchIsStrict
    /\ decision # "none" =>
         /\ (decision \in {"sms", "alert"}) <=> (price_tup[1] > threshold)
         /\ (decision = "normal") <=> (price_tup[1] <= threshold)
C8_Witness ==
    decision = "normal" /\ Observed /\ price_tup[1] = threshold

\* C9: with --sms set and a sink that delivers, every observed price above
\* the threshold causes exactly one messages.create in its cycle, also when
\* the previous cycle alerted already.
C9_EveryExceedingSampleAlerts ==
    (sms /\ Exceeds) =>
        /\ cycleSends <= 1
        /\ CycleDone => (cycleSends = 1 /\ cycleSent = 1 /\ decision = "sms")
C9_Witness ==
    /\ prevDecision = "sms" /\ decision = "sms"
    /\ cycleSent = 1 /\ pc = "LoopCheck"

\* C10: the argument of every time.sleep call of the run is max(60, delay):
\* never below 60 and the same in every cycle.
C10_SleepIsClampedDelay ==
    /\ pc # "start" => loop_delay = (IF delay < MinDelay THEN MinDelay ELSE delay)
    /\ \A i \in 1..Len(sleeps) :
         /\ sleeps[i] >= MinDelay
         /\ sleeps[i] = (IF delay < MinDelay THEN MinDelay ELSE delay)
         /\ sleeps[i] = sleeps[1]
C10_Witness == delay < MinDelay /\ Len(sleeps) >= 2 /\ sleeps[2] = MinDelay

\* C11: a KeyboardInterrupt that arrives during time.sleep stops the loop at
\* once, the sleep is not completed, and from the signal on there is no
\* further fetch, send or sleep.
C11_CancelDuringSleepStops ==
    [][/\ (pc = "Sleeping" /\ ~cancelled /\ cancelled') =>
            /\ pc' = "Stopped"
            /\ sleptSinceFetch' = sleptSinceFetch
            /\ sleptSinceSend' = sleptSinceSend
       /\ (cancelledAt = "Sleeping" \/ cancelledAt' = "Sleeping") =>
            /\ fetches' = fetches
            /\ sendsTotal' = sendsTotal
            /\ sleeps' = sleeps]_vars
C11_Witness ==
    /\ cancelledAt = "Sleeping" /\ pc = "Stopped"
    /\ ~sleptSinceFetch /\ Len(sleeps) >= 1

\* C12: with --sms, when a required credential (account, auth token, from
\* number, to number) is absent or empty, or the file is missing altogether,
\* the script ends with a non-zero exit code before the loop: no fetch, no
\* send.  Without --sms the credentials are not read and the loop is entered.
C12_MissingCredentialAborts ==
    /\ twilio_config.read => sms
    /\ (twilio_config.read /\ twilio_config.exists
          /\ \E k \in CredKeys : twilio_config.creds[k] \in {"absent", ""}) =>
            /\ pc = "Aborted" /\ exitCode = 1
            /\ fetches = 0 /\ sendsTotal = 0 /\ tw_client = "unset"
    /\ (twilio_config.read /\ ~twilio_config.exists) =>
            /\ pc = "Crashed" /\ exitCode = 1
            /\ fetches = 0 /\ sendsTotal = 0
    /\ ~sms =>
            /\ pc # "Aborted"
            /\ (pc # "start" /\ fetches = 0 /\ ~cancelled) => pc = "Polling"
C12_Witness ==
    /\ sms /\ twilio_config.read /\ twilio_config.exists
    /\ twilio_config.creds["ToNumber"] = ""
    /\ \A k \in CredKeys \ {"ToNumber"} : twilio_config.creds[k] = "v"
    /\ pc = "Aborted" /\ exitCode = 1

\* Shapes of an empty or malformed upstream response.
Malformed == {"nokey", "empty", "nofield", "nonestr", "unparsable"}

\* check_price returns () on every enumerated malformed response.
MalformedGivesEmptyTuple ==
    \A resp \in Responses :
        RespKind(resp) \in Malformed => check_price(resp) = <<>>

\* C13: for every empty or malformed upstream response (no history entries,
\* an entry without price field, a price string float() rejects) check_price
\* returns the empty tuple, and the loop sees Unavailable and does not end
\* with an error.
C13_MalformedIsUnavailable ==
    /\ MalformedGivesEmptyTuple
    /\ respKind \in Malformed =>
         /\ lastOutcome = "Unavailable" /\ price_tup = <<>>
         /\ pc # "Crashed" /\ exitCode # 1
C13_Witness ==
    respKind = "unparsable" /\ lastOutcome = "Unavailable" /\ pc = "Polling"

\* The printed lines that carry "Alert!": the SMS line (its message starts
\* with "Alert!") and the alert line of the elif branch.
HasAlertMarker(line) == line \in {"sending", "alert"}

\* C14: a cycle whose fetch returned a price prints exactly one status line
\* before the loop sleeps or stops, in each of the three branches, and that
\* line carries the alert marker iff price > threshold.
C14_OneStatusLinePerObservedCycle ==
    Observed =>
        /\ Len(out) <= 1
        /\ decision = "none" => out = <<>>
        /\ decision # "none" =>
              /\ Len(out) = 1
              /\ HasAlertMarker(out[1]) <=> (price_tup[1] > threshold)
        /\ CycleDone => decision # "none"
C14_Witness ==
    Observed /\ decision = "sms" /\ out = <<"sending">> /\ pc = "Sleeping"

\* C15 (as claimed): the loop stops only at a safe point: when it has stopped
\* in a cycle whose fetch returned a price, that cycle's evaluation and
\* status line, and its send when one was due, have been completed.
C15_StopsOnlyAtSafePoint ==
    (Observed /\ pc = "Stopped") =>
        /\ decision # "none" /\ cycleEvals = 1 /\ Len(out) = 1
        /\ decision = "sms" => cycleSends = 1

\* C15 (amended): a KeyboardInterrupt is honoured at the point where it
\* arrives.  Arriving between the fetch of a price and the evaluation it
\* stops the loop with no evaluation, no status line and no send for that
\* cycle; arriving at the send it stops the loop with the status line printed
\* and no completed send.
C15_CancelCutsCycleShort ==
    /\ cancelledAt = "Evaluating" =>
          /\ pc = "Stopped" /\ Observed
          /\ decision = "none" /\ cycleEvals = 0 /\ out = <<>> /\ cycleSends = 0
    /\ cancelledAt = "Notifying" =>
          /\ pc = "Stopped" /\ Observed
          /\ decision = "sms" /\ cycleEvals = 1 /\ Len(out) = 1
          /\ cycleSends = 0 /\ cycleSent = 0
C15_Witness ==
    cancelledAt = "Evaluating" /\ pc = "Stopped" /\ Observed /\ exitCode = 0

\* A response whose single history entry has the price string s.
RespWith(s) ==
    [hasHistory |-> TRUE, SpotPriceHistory |-> <<[has |-> TRUE, SpotPrice |-> s]>>]

\* check_price returns the float() value of every enumerated string float()
\* accepts, negative exactly for the strings with a leading minus sign.
ParsedValueReturned ==
    \A s \in PriceStrings \ {NoneStr} :
        float_(s).ok =>
            /\ check_price(RespWith(s)) = <<float_(s).val>>
            /\ (float_(s).val < 0) <=> (s[1] = "-")

\* C16 (as claimed): whenever check_price returns a price, it is
\* non-negative.
C16_ObservedPriceNonNegative == Observed => price_tup[1] >= 0

\* C16 (amended): whenever check_price returns a price, it is the value
\* float() gives for the upstream string, sign included: a string that parses
\* to a negative number is returned, and evaluated, as a negative price; the
\* price is non-negative exactly when the upstream number is.
C16_ObservedPriceIsParsedValue ==
    /\ ParsedValueReturned
    /\ respKind = "negative" => (Observed /\ price_tup[1] < 0)
    /\ respKind = "number" => (Observed /\ price_tup[1] >= 0)
    /\ Observed => respKind \in {"negative", "number"}
C16_Witness ==
    /\ respKind = "negative" /\ Observed /\ price_tup[1] < 0
    /\ decision = "normal" /\ cycleEvals = 1

\* C17: any two consecutive messages.create calls of a run are separated by
\* at least one completed sleep, and every sleep lasts at least 60 seconds,
\* whatever the fetches return.
C17_SleepBetweenSends ==
    /\ ~unsleptResend
    /\ (pc = "Notifying" /\ sendsTotal > 0) => sleptSinceSend
    /\ \A i \in 1..Len(sleeps) : sleeps[i] >= MinDelay
C17_Witness ==
    sendsTotal >= 2 /\ Len(sleeps) >= 1 /\ pc = "LoopCheck" /\ cycleSent = 1

\* C18: a KeyboardInterrupt arriving at any point of the loop (at the fetch,
\* at the evaluation, at the send, at the break test or during the sleep)
\* stops the script with exit code 0, and Stopped is terminal: no fetch,
\* send or sleep follows it.
C18_CancelAnywhereStopsCleanly ==
    [][/\ (~cancelled /\ cancelled') =>
            (pc \in LoopPcs /\ cancelledAt' = pc /\ pc' = "Stopped" /\ exitCode' = 0)
       /\ pc = "Stopped" =>
            /\ pc' = "Stopped" /\ exitCode' = exitCode
            /\ fetches' = fetches /\ sendsTotal' = sendsTotal /\ sleeps' = sleeps
       /\ cancelled => (pc = "Stopped" /\ exitCode = 0)]_vars
C18_Witness ==
    cancelledAt = "Notifying" /\ pc = "Stopped" /\ exitCode = 0 /\ sendsTotal = 0

====
